---- MODULE Spec2Model ----
(***************************************************************************)
(* The license-key server of server.js: four request handlers (generate,   *)
(* validate, list, deactivate) over one JSON file, keys.json.  Every       *)
(* handler is an async function, so requests interleave at each await:     *)
(* the read of the file, and the two halves of fs.writeFile (open with     *)
(* truncation, then the write of the new document).                        *)
(*                                                                         *)
(* Time is the integer clock; a day, the unit of durationDays, is Day       *)
(* units of it.  An ISO-8601 string of a valid Date is modelled by the     *)
(* integer it denotes (toISOString / new Date(string) are inverse on valid *)
(* dates); the invalid Date is NaN, on which toISOString throws.           *)
(***************************************************************************)
EXTENDS Integers, Sequences, FiniteSets, TLC

\* ---- bounds of the model ----
MaxEvents == 4       \* requests arriving plus clock ticks in one behaviour
MaxGenerates == 2    \* generate requests that pass the password check
Day == 2             \* units of the clock in one day

Procs == {1, 2}      \* requests in flight at the same time

\* ---- values of the request bodies ----
Undefined == "<undefined>"                       \* a field missing from req.body
Passwords == {"admin123", "admin124", Undefined}
Tokens == {"AIZEN-A", "AIZEN-B"}                 \* tokens generateKey can return
KeyInputs == Tokens \cup {"aizen-a", ""}
ValidateKeyInputs == KeyInputs \cup {Undefined}
DurationInputs == {"0", "abc"}
AllDurationInputs == {Undefined, "0", "1", "1.5", "abc"}
RandomBytes == {<<"A", 0>>, <<"A", 1>>, <<"B", 0>>}  \* <<first 12 hex digits, last 4>>

null == <<>>                                     \* lastUsed: null, else <<time>>
NaN == [nan |-> TRUE, v |-> 0]
Num(n) == [nan |-> FALSE, v |-> n]

\* what res.status(s).json(body) sends: the status, the error or message text,
\* and the key, expiresAt and keys fields of the body where it has them
NoResponse == [status |-> 0, text |-> "", key |-> "", expiresAt |-> null, keys |-> <<>>]
Response(s, t) == [NoResponse EXCEPT !.status = s, !.text = t]

\* ---- the store ----
\* readKeys: the parsed document, or { keys: [] } when readFile or JSON.parse throws
readKeys(d) == IF d.valid THEN d.keys ELSE <<>>

\* the file after fs.writeFile has opened it with flag 'w' and not yet written
Truncated == [valid |-> FALSE, keys |-> <<>>]

\* mutant: the write persists the newest record of data alone
WrittenNewest(data) ==
    [valid |-> TRUE, keys |-> IF data = <<>> THEN <<>> ELSE <<data[Len(data)]>>]

\* the file after writeKeys(data) has completed
Written(data) == [valid |-> TRUE, keys |-> data]

\* ---- pure helpers of the handlers ----
\* generateKey: AIZEN- and the first 12 of the 16 hex digits, the last 4 unused
generateKey(rb) == IF rb[1] = "A" THEN "AIZEN-A" ELSE "AIZEN-B"

\* parseInt(durationDays) with the default of the destructuring
parseInt(d) ==
    CASE d = Undefined -> Num(30)
      [] d = "0" -> Num(0)
      [] d = "1" -> Num(1)
      [] d = "1.5" -> Num(1)
      [] OTHER -> NaN

\* mutant: the number of days is added as units of the clock
AddUnits(now, n) == IF n.nan THEN NaN ELSE Num(now + n.v)

\* expiryDate = new Date(); expiryDate.setDate(getDate() + parseInt(durationDays))
AddDays(now, n) == IF n.nan THEN NaN ELSE Num(now + n.v * Day)

\* mutant: any password that is present is accepted
PasswordPresent(adminPassword) == adminPassword # Undefined

\* adminPassword !== 'admin123' is the rejection; this is its negation
PasswordAccepted(adminPassword) == adminPassword = "admin123"

\* mutant: only a missing key is refused, the empty string is looked up
FalsyMissingOnly(key) == key = Undefined

\* !key
Falsy(key) == key \in {"", Undefined}

\* mutant: the comparison ignores case
KeyMatchesIgnoringCase(k, key) ==
    k.key = key \/ (k.key = "AIZEN-A" /\ key = "aizen-a")

\* k.key === key
KeyMatches(k, key) == k.key = key

\* keysData.keys.find(k => k.key === key): the first match, 0 for undefined
Find(keys, key) ==
    IF \E i \in 1..Len(keys) : KeyMatches(keys[i], key)
    THEN CHOOSE i \in 1..Len(keys) :
            /\ KeyMatches(keys[i], key)
            /\ \A j \in 1..(i - 1) : ~KeyMatches(keys[j], key)
    ELSE 0

\* mutant: the expiry check comes before the isActive check
ValidateVerdictExpiryFirst(keys, key, now) ==
    LET i == Find(keys, key) IN
    IF i = 0 THEN "Key not found"
    ELSE IF keys[i].expiresAt < now THEN "Key has expired"
    ELSE IF ~keys[i].isActive THEN "Key has been deactivated"
    ELSE "Key is valid"

\* the checks of validate, in order, on the record found
ValidateVerdict(keys, key, now) ==
    LET i == Find(keys, key) IN
    IF i = 0 THEN "Key not found"
    ELSE IF ~keys[i].isActive THEN "Key has been deactivated"
    ELSE IF keys[i].expiresAt < now THEN "Key has expired"
    ELSE "Key is valid"

ValidateStatus(verdict) ==
    CASE verdict = "Key not found" -> 404
      [] verdict = "Key has been deactivated" -> 403
      [] verdict = "Key has expired" -> 403
      [] OTHER -> 200

\* mutant: only the record found is kept
TouchOnly(keys, i, now) == <<[keys[i] EXCEPT !.lastUsed = <<now>>]>>

\* keyData.lastUsed = new Date().toISOString()
Touch(keys, i, now) == [keys EXCEPT ![i].lastUsed = <<now>>]

\* mutant: isActive is toggled
ToggleActive(keys, i) == [keys EXCEPT ![i].isActive = ~@]

\* keyData.isActive = false
Deactivate(keys, i) == [keys EXCEPT ![i].isActive = FALSE]

\* mutant: the new record counts its creation as a use
NewRecordUsed(key, now, expiry) ==
    [key |-> key, createdAt |-> now, expiresAt |-> expiry,
     isActive |-> TRUE, lastUsed |-> <<now>>]

\* the object pushed by generate
NewRecord(key, now, expiry) ==
    [key |-> key, createdAt |-> now, expiresAt |-> expiry,
     isActive |-> TRUE, lastUsed |-> null]

VARIABLES
    disk,      \* keys.json: [valid, keys]
    clock,     \* the system clock
    pc,        \* per request slot: "idle", "read", "open", "write"
    op,        \* per slot: the handler running in it
    req,       \* per slot: the request body
    loc,       \* per slot: the handler's locals
    last,      \* the request answered by the step just taken, if any:
               \* its handler, its body and the response sent
    nreq,      \* requests started so far
    ngen,      \* generate requests that passed the password check so far
    drawn,     \* per token, how many times generateKey has returned it
    issued,    \* tokens whose generate has completed its write
    dead,      \* tokens seen with isActive = false in a written document
    acked,     \* tokens whose deactivate has been acknowledged
    used       \* per token, the lastUsed set by its latest validate answered 200

vars == <<disk, clock, pc, op, req, loc, last, nreq, ngen, drawn, issued, dead, acked,
         used>>

\* afterAck, sawExpired: what held of the key when the request arrived
NoReq == [key |-> Undefined, adminPassword |-> Undefined, durationDays |-> Undefined,
          afterAck |-> FALSE, sawExpired |-> FALSE]
\* keysData: keysData.keys, as readKeys returned it and the handler has changed it
NoLoc == [newKey |-> "", expiryDate |-> NaN, keysData |-> <<>>]

NoLast == [op |-> "none", req |-> NoReq, res |-> NoResponse]

Init ==
    /\ disk = Written(<<>>)
    /\ clock = 0
    /\ pc = [p \in Procs |-> "idle"]
    /\ op = [p \in Procs |-> "none"]
    /\ req = [p \in Procs |-> NoReq]
    /\ loc = [p \in Procs |-> NoLoc]
    /\ last = NoLast
    /\ nreq = 0
    /\ ngen = 0
    /\ drawn = [t \in Tokens |-> 0]
    /\ issued = {}
    /\ dead = {}
    /\ acked = {}
    /\ used = [t \in Tokens |-> null]

ghosts == <<drawn, issued, dead, acked, used>>

Tick ==
    /\ nreq + clock < MaxEvents
    /\ clock' = clock + 1
    /\ last' = NoLast
    /\ UNCHANGED <<disk, pc, op, req, loc, nreq, ngen, ghosts>>

CanStart(p) == pc[p] = "idle" /\ nreq + clock < MaxEvents

\* a new request is answered before its first await
Answer(p, o, r, response) ==
    /\ last' = [op |-> o, req |-> r, res |-> response]
    /\ nreq' = nreq + 1
    /\ UNCHANGED <<pc, op, req, loc>>

\* the slot p takes a new request, which goes on to await readKeys()
Await(p, o, r, l) ==
    /\ pc' = [pc EXCEPT ![p] = "read"]
    /\ op' = [op EXCEPT ![p] = o]
    /\ req' = [req EXCEPT ![p] = r]
    /\ loc' = [loc EXCEPT ![p] = l]
    /\ nreq' = nreq + 1
    /\ last' = NoLast

\* the request in slot p is answered and the slot is free again
Respond(p, response) ==
    /\ last' = [op |-> op[p], req |-> req[p], res |-> response]
    /\ pc' = [pc EXCEPT ![p] = "idle"]
    /\ op' = [op EXCEPT ![p] = "none"]
    /\ req' = [req EXCEPT ![p] = NoReq]
    /\ loc' = [loc EXCEPT ![p] = NoLoc]

\* the request in slot p goes on to await writeKeys(keys)
Save(p, keys) ==
    /\ pc' = [pc EXCEPT ![p] = "open"]
    /\ loc' = [loc EXCEPT ![p].keysData = keys]
    /\ last' = NoLast
    /\ UNCHANGED <<op, req>>

\* ---- POST /api/generate-key ----
\* a generate request arrives with its durationDays among D
GenerateArrives(p, D) ==
    /\ CanStart(p)
    /\ \E pw \in Passwords, d \in D :
        LET r == [NoReq EXCEPT !.adminPassword = pw, !.durationDays = d] IN
        IF ~PasswordAccepted(pw)
        THEN /\ Answer(p, "generate", r, Response(401, "Invalid admin password"))
             /\ UNCHANGED <<ngen, drawn>>
        ELSE /\ ngen < MaxGenerates
             /\ \E rb \in RandomBytes :
                  /\ Await(p, "generate", r,
                           [NoLoc EXCEPT !.newKey = generateKey(rb),
                                         !.expiryDate = AddDays(clock, parseInt(d))])
                  /\ drawn' = [drawn EXCEPT ![generateKey(rb)] = @ + 1]
             /\ ngen' = ngen + 1
    /\ UNCHANGED <<disk, clock, issued, dead, acked, used>>

GenerateStart(p) == GenerateArrives(p, DurationInputs)

GenerateRead(p) ==
    /\ pc[p] = "read" /\ op[p] = "generate"
    /\ IF loc[p].expiryDate.nan
       THEN \* expiryDate.toISOString() throws RangeError: the catch answers 500
            Respond(p, Response(500, "Failed to generate key"))
       ELSE Save(p,
                 Append(readKeys(disk),
                        NewRecord(loc[p].newKey, clock, loc[p].expiryDate.v)))
    /\ UNCHANGED <<disk, clock, nreq, ngen, ghosts>>

\* ---- POST /api/validate-key ----
\* the record a complete keys.json holds for key is past its expiry
ExpiredOnDisk(key) ==
    /\ disk.valid
    /\ Find(disk.keys, key) # 0
    /\ disk.keys[Find(disk.keys, key)].expiresAt < clock

ValidateStart(p) ==
    /\ CanStart(p)
    /\ \E key \in ValidateKeyInputs :
        LET r == [NoReq EXCEPT !.key = key,
                               !.afterAck = key \in acked,
                               !.sawExpired = ExpiredOnDisk(key)] IN
        IF Falsy(key)
        THEN Answer(p, "validate", r, Response(400, "Key is required"))
        ELSE Await(p, "validate", r, NoLoc)
    /\ UNCHANGED <<disk, clock, ngen, ghosts>>

\* mutant: readKeys does not catch, so that an unreadable keys.json is answered
\* by the catch block of the handler
ValidateReadThrowing(p) ==
    /\ pc[p] = "read" /\ op[p] = "validate"
    /\ LET keys == readKeys(disk)
           verdict == ValidateVerdict(keys, req[p].key, clock) IN
       IF ~disk.valid
       THEN Respond(p, Response(500, "Server error"))
       ELSE IF verdict # "Key is valid"
       THEN Respond(p, Response(ValidateStatus(verdict), verdict))
       ELSE Save(p, Touch(keys, Find(keys, req[p].key), clock))
    /\ UNCHANGED <<disk, clock, nreq, ngen, ghosts>>

ValidateRead(p) ==
    /\ pc[p] = "read" /\ op[p] = "validate"
    /\ LET keys == readKeys(disk)
           verdict == ValidateVerdict(keys, req[p].key, clock) IN
       IF verdict # "Key is valid"
       THEN Respond(p, Response(ValidateStatus(verdict), verdict))
       ELSE Save(p, Touch(keys, Find(keys, req[p].key), clock))
    /\ UNCHANGED <<disk, clock, nreq, ngen, ghosts>>

\* ---- POST /api/list-keys ----
ListStart(p) ==
    /\ CanStart(p)
    /\ \E pw \in Passwords :
        LET r == [NoReq EXCEPT !.adminPassword = pw] IN
        IF ~PasswordAccepted(pw)
        THEN Answer(p, "list", r, Response(401, "Invalid admin password"))
        ELSE Await(p, "list", r, NoLoc)
    /\ UNCHANGED <<disk, clock, ngen, ghosts>>

ListRead(p) ==
    /\ pc[p] = "read" /\ op[p] = "list"
    /\ Respond(p, [Response(200, "") EXCEPT !.keys = readKeys(disk)])
    /\ UNCHANGED <<disk, clock, nreq, ngen, ghosts>>

\* ---- POST /api/deactivate-key ----
DeactivateStart(p) ==
    /\ CanStart(p)
    /\ \E pw \in Passwords, key \in KeyInputs :
        LET r == [NoReq EXCEPT !.adminPassword = pw, !.key = key,
                               !.afterAck = key \in acked] IN
        IF ~PasswordAccepted(pw)
        THEN Answer(p, "deactivate", r, Response(401, "Invalid admin password"))
        ELSE Await(p, "deactivate", r, NoLoc)
    /\ UNCHANGED <<disk, clock, ngen, ghosts>>

DeactivateRead(p) ==
    /\ pc[p] = "read" /\ op[p] = "deactivate"
    /\ LET keys == readKeys(disk)
           i == Find(keys, req[p].key) IN
       IF i = 0
       THEN Respond(p, Response(404, "Key not found"))
       ELSE Save(p, Deactivate(keys, i))
    /\ UNCHANGED <<disk, clock, nreq, ngen, ghosts>>

\* ---- writeKeys, and the handler's lines after it ----
\* fs.writeFile opens keys.json with flag 'w': the file is empty until the write
WriteOpen(p) ==
    /\ pc[p] = "open"
    /\ pc' = [pc EXCEPT ![p] = "write"]
    /\ disk' = Truncated
    /\ last' = NoLast
    /\ UNCHANGED <<clock, op, req, loc, nreq, ngen, ghosts>>

\* the body sent after await writeKeys(keysData) has returned
Success(o, r, l) ==
    CASE o = "generate" ->
            [Response(200, "Key generated successfully")
                EXCEPT !.key = l.newKey, !.expiresAt = <<l.expiryDate.v>>]
      [] o = "validate" ->
            [Response(200, "Key is valid")
                EXCEPT !.expiresAt = <<l.keysData[Find(l.keysData, r.key)].expiresAt>>]
      [] OTHER -> Response(200, "Key deactivated successfully")

\* the tokens of the records of keys that have isActive = false
Inactive(keys) == {keys[i].key : i \in {j \in 1..Len(keys) : ~keys[j].isActive}}

WriteData(p) ==
    /\ pc[p] = "write"
    /\ disk' = Written(loc[p].keysData)
    /\ Respond(p, Success(op[p], req[p], loc[p]))
    /\ issued' = IF op[p] = "generate" THEN issued \cup {loc[p].newKey} ELSE issued
    /\ acked' = IF op[p] = "deactivate" THEN acked \cup {req[p].key} ELSE acked
    /\ used' = IF op[p] = "validate"
               THEN [used EXCEPT ![req[p].key] =
                        loc[p].keysData[Find(loc[p].keysData, req[p].key)].lastUsed]
               ELSE used
    /\ dead' = dead \cup Inactive(loc[p].keysData)
    /\ UNCHANGED <<clock, nreq, ngen, drawn>>

\* mutant: the catch block answers as if the handler had gone through
FailureReportsSuccess(o) == Response(200, "OK")

\* the body of the catch block of each handler
Failure(o) ==
    CASE o = "generate" -> Response(500, "Failed to generate key")
      [] o = "validate" -> Response(500, "Server error")
      [] o = "list" -> Response(500, "Failed to list keys")
      [] OTHER -> Response(500, "Failed to deactivate key")

\* fs.writeFile rejects (at the open, or at the write after the truncation)
WriteFail(p) ==
    /\ pc[p] \in {"open", "write"}
    /\ Respond(p, Failure(op[p]))
    /\ UNCHANGED <<disk, clock, nreq, ngen, ghosts>>

Next ==
    \/ Tick
    \/ \E p \in Procs : GenerateStart(p)
    \/ \E p \in Procs : GenerateRead(p)
    \/ \E p \in Procs : ValidateStart(p)
    \/ \E p \in Procs : ValidateRead(p)
    \/ \E p \in Procs : ListStart(p)
    \/ \E p \in Procs : ListRead(p)
    \/ \E p \in Procs : DeactivateStart(p)
    \/ \E p \in Procs : DeactivateRead(p)
    \/ \E p \in Procs : WriteOpen(p)
    \/ \E p \in Procs : WriteData(p)
    \/ \E p \in Procs : WriteFail(p)

Spec == Init /\ [][Next]_vars

\* ---- generate requests alone, with every kind of durationDays ----
GenerateStartAny(p) == GenerateArrives(p, AllDurationInputs)

NextGen ==
    \/ Tick
    \/ \E p \in Procs : GenerateStartAny(p)
    \/ \E p \in Procs : GenerateRead(p)
    \/ \E p \in Procs : WriteOpen(p)
    \/ \E p \in Procs : WriteData(p)
    \/ \E p \in Procs : WriteFail(p)

SpecGen == Init /\ [][NextGen]_vars

\* ---------------------------------------------------------------------------
\* Properties
\* ---------------------------------------------------------------------------
\* the positions of the records of keys whose token is key
Matching(keys, key) == {i \in 1..Len(keys) : keys[i].key = key}

\* the position of the first of them (the set is not empty)
First(keys, key) ==
    CHOOSE i \in Matching(keys, key) : \A j \in Matching(keys, key) : i <= j

\* the step just taken is the continuation of slot p after its readKeys()
ReadStep(p, o) == pc[p] = "read" /\ op[p] = o /\ pc'[p] # "read"

\* the step just taken is the completion of the writeKeys() of slot p
WriteStep(p, o) == pc[p] = "write" /\ op[p] = o /\ disk' = Written(loc[p].keysData)

\* C1: once a complete keys.json has held the record of a token with
\* isActive = false, no later complete keys.json holds a record of that token
\* with isActive = true (for a token generateKey has returned once, so that the
\* token names one record).
C1_InactiveIsTerminal ==
    \A t \in dead :
        (drawn[t] = 1 /\ disk.valid) =>
            \A i \in Matching(disk.keys, t) : ~disk.keys[i].isActive

\* C2: no record is ever deleted: the token of a generate that has completed
\* its write is in every later complete keys.json.
C2_NoRecordDeleted ==
    \A t \in issued : disk.valid => Matching(disk.keys, t) # {}

\* C3: validate checks not-found, then deactivated, then expired: a record that
\* is deactivated and expired is answered "Key has been deactivated" (the
\* answering step leaves the file and the clock as validate read them).
C3_ValidationOrder ==
    (last.op = "validate" /\ last.res.status \in {403, 404}) =>
        LET keys == readKeys(disk)
            key == last.req.key IN
        IF Matching(keys, key) = {}
        THEN last.res = Response(404, "Key not found")
        ELSE IF ~keys[First(keys, key)].isActive
        THEN last.res = Response(403, "Key has been deactivated")
        ELSE /\ keys[First(keys, key)].expiresAt < clock
             /\ last.res = Response(403, "Key has expired")

C3_Witness ==
    /\ last.op = "validate"
    /\ last.res = Response(403, "Key has been deactivated")
    /\ Matching(readKeys(disk), last.req.key) # {}
    /\ LET k == readKeys(disk)[First(readKeys(disk), last.req.key)] IN
       ~k.isActive /\ k.expiresAt < clock

\* C4: generate, list and deactivate answer 401 "Invalid admin password" to
\* every request whose adminPassword is not exactly 'admin123', and the step
\* that answers so changes neither keys.json nor any request in flight.
C4_CredentialGate ==
    [][(/\ last'.op \in {"generate", "list", "deactivate"}
        /\ last'.req.adminPassword # "admin123")
       => (/\ last'.res = Response(401, "Invalid admin password")
           /\ disk' = disk
           /\ pc' = pc /\ loc' = loc)]_vars

C4_Witness ==
    /\ last.op = "deactivate"
    /\ last.res.status = 401
    /\ last.req.adminPassword = "admin124"
    /\ Matching(readKeys(disk), last.req.key) # {}
    /\ readKeys(disk)[First(readKeys(disk), last.req.key)].isActive

\* C5: a validate that starts after a deactivate of its token has been
\* acknowledged is answered "Key has been deactivated".
C5_DeactivatedStaysRejected ==
    (last.op = "validate" /\ last.req.afterAck) =>
        last.res = Response(403, "Key has been deactivated")

\* C6: no two records of a complete keys.json have the same token.
C6_TokensUnique ==
    disk.valid =>
        \A i, j \in 1..Len(disk.keys) :
            disk.keys[i].key = disk.keys[j].key => i = j

\* C7: a validate that reads an active, unexpired record for its token sets
\* that record's lastUsed to the current time and leaves the other records and
\* that record's other fields as read; the write persists exactly that, and the
\* answer is "Key is valid" with the record's expiresAt.
C7_ValidateTouches ==
    [][\A p \in Procs :
        /\ (/\ ReadStep(p, "validate")
            /\ Matching(readKeys(disk), req[p].key) # {}
            /\ LET k == readKeys(disk)[First(readKeys(disk), req[p].key)] IN
               k.isActive /\ ~(k.expiresAt < clock))
           => LET keys == readKeys(disk)
                  i == First(keys, req[p].key)
                  new == loc'[p].keysData IN
              /\ pc'[p] = "open"
              /\ Len(new) = Len(keys)
              /\ \A j \in 1..Len(keys) : j # i => new[j] = keys[j]
              /\ new[i].lastUsed = <<clock>>
              /\ new[i].key = keys[i].key
              /\ new[i].createdAt = keys[i].createdAt
              /\ new[i].expiresAt = keys[i].expiresAt
              /\ new[i].isActive = keys[i].isActive
        /\ (pc[p] = "write" /\ op[p] = "validate" /\ last'.res.status = 200
                /\ pc'[p] = "idle")
           => /\ disk' = [valid |-> TRUE, keys |-> loc[p].keysData]
              /\ last'.res.text = "Key is valid"
              /\ last'.res.expiresAt =
                    <<loc[p].keysData[First(loc[p].keysData, req[p].key)].expiresAt>>
      ]_vars

C7_Witness ==
    /\ last.op = "validate"
    /\ last.res.status = 200
    /\ disk.valid
    /\ Len(disk.keys) = 2
    /\ Matching(disk.keys, last.req.key) # {}
    /\ disk.keys[First(disk.keys, last.req.key)].lastUsed = <<clock>>
    /\ last.res.expiresAt = <<disk.keys[First(disk.keys, last.req.key)].expiresAt>>

\* C8: a key that was past its expiry when a validate for it arrived is
\* answered "Key has expired" or "Key has been deactivated" (for a token
\* generateKey has returned once).
C8_ExpiredStaysRejected ==
    (last.op = "validate" /\ last.req.sawExpired /\ drawn[last.req.key] = 1) =>
        last.res.text \in {"Key has expired", "Key has been deactivated"}

\* C9: a deactivate that reads its token's record with isActive = false goes on
\* to write the records exactly as read, and every deactivate that completes
\* its write persists what it holds and answers with the one acknowledgement.
C9_DeactivateIdempotent ==
    [][\A p \in Procs :
        /\ (/\ ReadStep(p, "deactivate")
            /\ Matching(readKeys(disk), req[p].key) # {}
            /\ ~readKeys(disk)[First(readKeys(disk), req[p].key)].isActive)
           => /\ pc'[p] = "open"
              /\ loc'[p].keysData = readKeys(disk)
        /\ (pc[p] = "write" /\ op[p] = "deactivate" /\ last'.res.status = 200
                /\ pc'[p] = "idle")
           => /\ disk' = [valid |-> TRUE, keys |-> loc[p].keysData]
              /\ last'.res = Response(200, "Key deactivated successfully")
      ]_vars

C9_Witness ==
    /\ last.op = "deactivate"
    /\ last.req.afterAck
    /\ last.res = Response(200, "Key deactivated successfully")
    /\ disk.valid
    /\ Cardinality(Matching(disk.keys, last.req.key)) = 1
    /\ ~disk.keys[First(disk.keys, last.req.key)].isActive

\* C10: a validate or a deactivate (with the right password) whose token equals
\* the token of no record read is answered 404 "Key not found", and the step
\* that answers leaves keys.json unchanged and starts no write.
C10_UnknownKey ==
    [][\A p \in Procs :
        (/\ ReadStep(p, "validate") \/ ReadStep(p, "deactivate")
         /\ Matching(readKeys(disk), req[p].key) = {})
        => /\ last'.res = Response(404, "Key not found")
           /\ last'.req.key = req[p].key
           /\ disk' = disk
           /\ pc'[p] = "idle"
      ]_vars

C10_Witness ==
    /\ last.op \in {"validate", "deactivate"}
    /\ last.req.key = "aizen-a"
    /\ last.res = Response(404, "Key not found")
    /\ Matching(readKeys(disk), "AIZEN-A") # {}

\* C11: readKeys fails open: a request that reads keys.json while it is not a
\* complete document goes on as on an empty store: validate and deactivate
\* answer 404 "Key not found", list answers 200 with no keys, and generate goes
\* on to write the list that holds its new record alone; none answers 500.
C11_LoadFailsOpen ==
    [][\A p \in Procs :
        (pc[p] = "read" /\ pc'[p] # "read" /\ ~disk.valid) =>
            CASE op[p] = "validate" ->
                    last'.res = Response(404, "Key not found") /\ disk' = disk
              [] op[p] = "deactivate" ->
                    last'.res = Response(404, "Key not found") /\ disk' = disk
              [] op[p] = "list" ->
                    /\ last'.res.status = 200
                    /\ last'.res.keys = <<>>
                    /\ disk' = disk
              [] OTHER ->
                    \/ loc[p].expiryDate.nan
                    \/ /\ pc'[p] = "open"
                       /\ Len(loc'[p].keysData) = 1
                       /\ loc'[p].keysData[1].key = loc[p].newKey
      ]_vars

\* the file is unreadable with no write in progress (a write has failed after
\* the truncation), it had held the key, and validate answers as on an empty store
C11_Witness ==
    /\ ~disk.valid
    /\ \A p \in Procs : pc[p] = "idle"
    /\ last.op = "validate"
    /\ last.req.key \in issued
    /\ last.res = Response(404, "Key not found")

\* the durationDays that are integers, and the integer each one is
IntegerDurations == {Undefined, "0", "1"}
Days(d) == CASE d = Undefined -> 30 [] d = "0" -> 0 [] OTHER -> 1

\* the record a generate has just written: the last one of keys.json
Newest == disk.keys[Len(disk.keys)]

\* C12 as stated: after every successful generate with an integer durationDays
\* the new record's expiresAt - createdAt is durationDays days, and the
\* expiresAt returned is the one persisted.
C12_ExpiryArithmetic ==
    (/\ last.op = "generate"
     /\ last.res.status = 200
     /\ last.req.durationDays \in IntegerDurations)
    => /\ Newest.expiresAt - Newest.createdAt = Days(last.req.durationDays) * Day
       /\ last.res.expiresAt = <<Newest.expiresAt>>

\* C12 as amended: expiresAt is the clock at the arrival of the request plus
\* durationDays days; createdAt is the clock after readKeys, so that
\* expiresAt - createdAt is at most durationDays days, short by what the clock
\* has advanced in between; the expiresAt returned is the one persisted.
C12_ExpiryFromArrival ==
    [][\A p \in Procs :
        /\ (/\ pc[p] = "idle" /\ pc'[p] = "read" /\ op'[p] = "generate"
            /\ req'[p].durationDays \in IntegerDurations)
           => loc'[p].expiryDate =
                 [nan |-> FALSE, v |-> clock + Days(req'[p].durationDays) * Day]
        /\ (ReadStep(p, "generate") /\ req[p].durationDays \in IntegerDurations)
           => /\ pc'[p] = "open"
              /\ LET r == loc'[p].keysData[Len(loc'[p].keysData)] IN
                 /\ r.createdAt = clock
                 /\ r.expiresAt = loc[p].expiryDate.v
                 /\ r.expiresAt - r.createdAt <= Days(req[p].durationDays) * Day
                 /\ r.expiresAt - r.createdAt >=
                        Days(req[p].durationDays) * Day - clock
        /\ (/\ pc[p] = "write" /\ op[p] = "generate" /\ pc'[p] = "idle"
            /\ last'.res.status = 200)
           => /\ disk'.valid
              /\ last'.res.expiresAt = <<disk'.keys[Len(disk'.keys)].expiresAt>>
              /\ last'.res.key = disk'.keys[Len(disk'.keys)].key
      ]_vars

\* a generate with no durationDays has succeeded, and the clock had advanced by
\* one unit between its arrival and the end of its readKeys
C12_Witness ==
    /\ last.op = "generate"
    /\ last.res.status = 200
    /\ last.req.durationDays = Undefined
    /\ Newest.expiresAt - Newest.createdAt = 30 * Day - 1
    /\ last.res.expiresAt = <<Newest.expiresAt>>

\* C13: a generate with the right password and a durationDays that is no
\* integer is answered with an invalid-argument failure (status 400), and
\* returns no key.
C13_InvalidDurationRejected ==
    (/\ last.op = "generate"
     /\ last.req.adminPassword = "admin123"
     /\ last.req.durationDays \notin IntegerDurations)
    => /\ last.res.status = 400
       /\ last.res.key = ""

\* the tokens of the records of keys
KeysOf(keys) == {keys[i].key : i \in 1..Len(keys)}

\* C14: the save of a generate replaces keys.json by the snapshot that this
\* generate loaded plus its own record, and reports success, whatever has been
\* saved since it loaded: a token issued in between is no longer in the file.
C14_LaterSaveOverwrites ==
    [][\A p \in Procs :
        (/\ pc[p] = "write" /\ op[p] = "generate" /\ pc'[p] = "idle"
         /\ last'.res.status = 200)
        => /\ disk' = [valid |-> TRUE, keys |-> loc[p].keysData]
           /\ \A k \in issued \ KeysOf(loc[p].keysData) : k \notin KeysOf(disk'.keys)
      ]_vars

\* the lost update: two generate requests, and no other, have arrived at the
\* same time, each has been answered 200 with a token of its own, and keys.json
\* holds the record of the later save alone
C14_Witness ==
    /\ nreq = 2 /\ ngen = 2 /\ clock = 0
    /\ \A p \in Procs : pc[p] = "idle"
    /\ issued = Tokens
    /\ \A t \in Tokens : drawn[t] = 1
    /\ last.op = "generate" /\ last.res.status = 200
    /\ disk.valid
    /\ KeysOf(disk.keys) = {last.res.key}

\* C15: once a generate has been answered 200, so that the record set before
\* and after every later write has a record, a readKeys that runs while the
\* writeKeys of another request is in progress finds keys.json complete: it
\* never returns the empty list of a truncated file.
C15_NoPartialWrite ==
    [][\A p, q \in Procs :
        (/\ p # q
         /\ pc[p] = "read" /\ pc'[p] # "read"
         /\ pc[q] = "write"
         /\ issued # {})
        => /\ disk.valid
           /\ readKeys(disk) # <<>>
      ]_vars

\* C16: whenever no request is in flight, the lastUsed of each record is the
\* timestamp taken by the latest validate of its token that was answered 200,
\* and null if there has been none.
C16_LastUsedIsLatest ==
    (disk.valid /\ \A p \in Procs : pc[p] = "idle")
    => \A i \in 1..Len(disk.keys) :
          drawn[disk.keys[i].key] = 1 => disk.keys[i].lastUsed = used[disk.keys[i].key]

\* the document new differs from the document old at most in the one field that
\* operation o may change, and only in records of the token key
Frame(o, key, old, new) ==
    /\ Len(new) = Len(old)
    /\ \A i \in 1..Len(old) :
          /\ new[i].key = old[i].key
          /\ new[i].createdAt = old[i].createdAt
          /\ new[i].expiresAt = old[i].expiresAt
          /\ (new[i].isActive # old[i].isActive)
                => (o = "deactivate" /\ KeyMatches(old[i], key))
          /\ (new[i].lastUsed # old[i].lastUsed)
                => (o = "validate" /\ KeyMatches(old[i], key))

\* C17: the document that a validate or a deactivate saves differs from the
\* document its save replaces at most in lastUsed, respectively isActive, of the
\* records of its token: no record is added, removed or changed otherwise; and
\* a list saves nothing.
C17_FrameOfEachOperation ==
    [][\A p \in Procs :
        /\ (/\ pc[p] = "open" /\ pc'[p] = "write" /\ disk.valid
            /\ op[p] \in {"validate", "deactivate"})
           => Frame(op[p], req[p].key, disk.keys, loc[p].keysData)
        /\ ReadStep(p, "list") => (pc'[p] = "idle" /\ disk' = disk)
      ]_vars

\* C18: a generate appends one record, with isActive = true and lastUsed =
\* null, at the end of the list it loaded and leaves the records before it as
\* they were; its save persists that list and then answers 200; and the records
\* of keys.json are in the order of their creation.
C18_GenerateAppends ==
    [][\A p \in Procs :
        /\ (ReadStep(p, "generate") /\ pc'[p] = "open")
           => LET old == readKeys(disk)
                  new == loc'[p].keysData IN
              /\ Len(new) = Len(old) + 1
              /\ \A i \in 1..Len(old) : new[i] = old[i]
              /\ new[Len(new)].key = loc[p].newKey
              /\ new[Len(new)].isActive = TRUE
              /\ new[Len(new)].lastUsed = null
        /\ (/\ pc[p] = "write" /\ op[p] = "generate" /\ pc'[p] = "idle"
            /\ last'.res.status = 200)
           => /\ disk'.valid
              /\ disk'.keys = loc[p].keysData
              /\ last'.res.key = disk'.keys[Len(disk'.keys)].key
        /\ disk'.valid
           => \A i, j \in 1..Len(disk'.keys) :
                 i < j => disk'.keys[i].createdAt <= disk'.keys[j].createdAt
      ]_vars

\* a generate has been answered 200 after the token of an earlier generate had
\* been validated: keys.json holds the earlier record, with its lastUsed, and
\* then the new one
C18_Witness ==
    /\ last.op = "generate" /\ last.res.status = 200
    /\ disk.valid /\ Len(disk.keys) = 2
    /\ disk.keys[1].key \in issued
    /\ disk.keys[1].key # disk.keys[2].key
    /\ disk.keys[1].lastUsed # null
    /\ disk.keys[1].createdAt < disk.keys[2].createdAt
    /\ disk.keys[2].key = last.res.key
    /\ disk.keys[2].isActive /\ disk.keys[2].lastUsed = null

\* the text of the 500 response of each handler
GenericError(o) ==
    CASE o = "generate" -> "Failed to generate key"
      [] o = "validate" -> "Server error"
      [] o = "list" -> "Failed to list keys"
      [] OTHER -> "Failed to deactivate key"

\* C19: every request gets one response: a request is answered at its arrival
\* or goes in flight; in flight it stays the same request until the step that
\* answers it, and each response is the answer of one request.  A failure in
\* the handler is answered 500 with the handler's generic text: the invalid
\* date of a generate, and a writeKeys that failed, which leaves keys.json as
\* it was at the failure; a request that saves is answered 200 only by the step
\* that completes its write, and is answered 500 by every other step that ends
\* its writeKeys.
C19_OneResponse ==
    [][/\ \A p \in Procs :
          /\ (pc[p] # "idle" /\ pc'[p] # "idle")
             => (op'[p] = op[p] /\ req'[p] = req[p])
          /\ (pc[p] # "idle" /\ pc'[p] = "idle")
             => /\ last'.op = op[p] /\ last'.req = req[p]
                /\ last'.res.status # 0
                /\ \A q \in Procs \ {p} : pc'[q] = pc[q]
          /\ (pc[p] = "idle" /\ pc'[p] # "idle")
             => (pc'[p] = "read" /\ nreq' = nreq + 1 /\ last' = NoLast)
          /\ (pc[p] \in {"open", "write"} /\ pc'[p] = "idle")
             => \/ /\ pc[p] = "write"
                   /\ disk' = [valid |-> TRUE, keys |-> loc[p].keysData]
                   /\ last'.res.status = 200
                \/ /\ disk' = disk
                   /\ last'.res = Response(500, GenericError(op[p]))
          /\ (ReadStep(p, "generate") /\ loc[p].expiryDate.nan)
             => (last'.res = Response(500, GenericError("generate")) /\ disk' = disk)
       /\ (last' # NoLast)
          => \/ \E p \in Procs : pc[p] # "idle" /\ pc'[p] = "idle"
             \/ pc' = pc /\ nreq' = nreq + 1
       /\ (last'.res.status = 200 /\ last'.op \in {"generate", "validate", "deactivate"})
          => \E p \in Procs :
                /\ pc[p] = "write" /\ pc'[p] = "idle"
                /\ disk' = [valid |-> TRUE, keys |-> loc[p].keysData]
      ]_vars

\* the write of a validate of an issued token has failed after the truncation:
\* the request has been answered 500 "Server error" and no request is in flight
C19_Witness ==
    /\ last.op = "validate"
    /\ last.req.key \in issued
    /\ last.res = Response(500, "Server error")
    /\ ~disk.valid
    /\ \A p \in Procs : pc[p] = "idle"

\* C20: a validate whose key is missing or empty is answered 400 "Key is
\* required" at its arrival: it never awaits readKeys, so that it neither reads
\* nor writes keys.json, and it is never answered 404.
C20_KeyRequired ==
    [][/\ (last'.op = "validate" /\ last'.req.key \in {"", Undefined})
          => /\ last'.res = Response(400, "Key is required")
             /\ disk' = disk
             /\ pc' = pc
             /\ loc' = loc
       /\ \A p \in Procs :
             (pc'[p] # "idle" /\ op'[p] = "validate")
                => req'[p].key \notin {"", Undefined}
      ]_vars

\* a validate with the empty key has been answered 400 while keys.json held a
\* record
C20_Witness ==
    /\ last.op = "validate"
    /\ last.req.key = ""
    /\ last.res = Response(400, "Key is required")
    /\ disk.valid /\ Len(disk.keys) > 0
====
